---- MODULE Spec2Model ----
(***************************************************************************)
(* Hook orchestration engine of the workbench `hooks` contribution:        *)
(* HooksService (browser/hooksService.ts) with its registry                *)
(* (_registeredHooks), the per-type execution pipeline (executeHooks /     *)
(* executeHook), the execution event (onHookExecuted) and the reload       *)
(* protocol (loadWorkspaceHooks / loadHooksFromConfig).                    *)
(*                                                                         *)
(* JavaScript runs one task at a time: every action below is one           *)
(* synchronous stretch of code between two suspension points (`await`).    *)
(* Arrays and configuration objects have identity: an array is a cell of   *)
(* `heap`, a configuration is an index of Configs.                         *)
(***************************************************************************)
EXTENDS Integers, Sequences, FiniteSets, TLC

(***************************************************************************)
(* Bounds of the model.                                                    *)
(***************************************************************************)
\* The longest list registerHook is called on a type to build.
MaxLen == 3

(***************************************************************************)
(* Program constants.                                                      *)
(***************************************************************************)
DefaultTimeout == 5000
SimulatedDelay == 100
ErrorExitCode == -1

\* enum HookType, in the order of its declaration
HookTypeSeq ==
    << "pre-copilot-prompt", "pre-context-attach", "pre-commit", "pre-push",
       "pre-pull", "post-copilot-response", "workspace-open", "file-save" >>

HookType == { HookTypeSeq[i] : i \in DOMAIN HookTypeSeq }

\* The event types the operations of the model are called with.
TypeInputs == { "pre-commit", "file-save" }

(***************************************************************************)
(* IHookConfiguration objects.  The index in the sequence is the object's  *)
(* identity; an absent `script`/`command` is "", an absent `timeout` is 0  *)
(* (both are falsy, which is all `||` looks at), an absent abortOnFailure  *)
(* is FALSE.  Object 1 is the first hook of the abortOnFailure test, 2 its *)
(* second hook with a timeout of 50 ms, 4 has the field values of 2;       *)
(* 3, 5 and 6 are objects parsed from a configuration source.  7 has both  *)
(* a script and a command, 8 has neither.                                  *)
(***************************************************************************)
Configs ==
    << [script |-> "",       command |-> "false", timeout |-> 0,    abortOnFailure |-> TRUE],
       [script |-> "",       command |-> "echo",  timeout |-> 50,   abortOnFailure |-> FALSE],
       [script |-> "./a.sh", command |-> "",      timeout |-> 1000, abortOnFailure |-> TRUE],
       [script |-> "",       command |-> "echo",  timeout |-> 50,   abortOnFailure |-> FALSE],
       [script |-> "./configured-script.sh", command |-> "", timeout |-> 3000, abortOnFailure |-> FALSE],
       [script |-> "",       command |-> "echo",  timeout |-> 0,    abortOnFailure |-> FALSE],
       [script |-> "./a.sh", command |-> "echo",  timeout |-> 0,    abortOnFailure |-> FALSE],
       [script |-> "",       command |-> "",      timeout |-> 0,    abortOnFailure |-> FALSE] >>

\* Messages of the errors a hook run can throw.
ErrorMessages == { "spawn ENOENT" }

\* What a hook run does: it returns, or it throws an Error with a message.
Outcomes == { [throws |-> FALSE, message |-> ""] }
            \cup { [throws |-> TRUE, message |-> m] : m \in ErrorMessages }

(***************************************************************************)
(* Values of the configuration sources: the settings value under `hooks`   *)
(* and the parsed content of .vscode/hooks.json.  Of a value: whether      *)
(* isObject is true of it, its properties other than `hooks` (props), and  *)
(* its `hooks` property: absent, an object, or anything else.  A property  *)
(* of `hooks` has a key and a value that is an array of elements or one    *)
(* element; an element is a configuration object, or 0 for anything that   *)
(* is not an object (a string, a number, null, an array).                  *)
(***************************************************************************)
Entry(key, isArray, elems) == [ key |-> key, isArray |-> isArray, elems |-> elems ]

Value(isObj, props, hooksKind, entries) ==
    [ isObject |-> isObj, props |-> props, hooksKind |-> hooksKind, entries |-> entries ]

\* undefined, a string, a number: nothing isObject is true of.
NotAnObject == Value(FALSE, << >>, "absent", << >>)

\* What configurationService.getValue('hooks') can be.  The second value
\* is the one the configuration test sets: event types at the top level
\* and no `hooks` property.
SettingsValues ==
    << NotAnObject,
       Value(TRUE, << Entry("pre-copilot-prompt", TRUE, << 6 >>),
                      Entry("pre-commit", TRUE, << 5 >>) >>, "absent", << >>),
       Value(TRUE, << >>, "object", << Entry("pre-commit", TRUE, << 5 >>) >>),
       Value(TRUE, << >>, "other", << >>),
       Value(TRUE, << >>, "object", << Entry("pre-xyz", TRUE, << 5 >>),
                                       Entry("file-save", TRUE, << 5 >>) >>) >>

\* What JSON.parse of the file's content can be.
FileValues ==
    << NotAnObject,
       Value(TRUE, << >>, "absent", << >>),
       Value(TRUE, << >>, "object", << Entry("pre-commit", TRUE, << 3 >>) >>),
       Value(TRUE, << >>, "object", << Entry("file-save", TRUE, << 0, 6 >>),
                                       Entry("pre-xyz", TRUE, << 3 >>),
                                       Entry("pre-commit", FALSE, << 3 >>),
                                       Entry("pre-push", FALSE, << 0 >>) >>),
       Value(TRUE, << >>, "object", << Entry("pre-commit", TRUE, << 7 >>) >>) >>

\* What reading and parsing the file does: it throws (no file, invalid
\* JSON), or it yields FileValues[value].
FileOutcomes ==
    { [ throws |-> TRUE, value |-> 0 ] }
        \cup { [ throws |-> FALSE, value |-> v ] : v \in DOMAIN FileValues }

\* The executeHooks calls and the loadWorkspaceHooks calls that can be in
\* flight.
CallIds == { 1, 2 }
LoadIds == { 1, 2 }

(***************************************************************************)
(* Array identities.  The array the map holds for a type is named by the   *)
(* type's place in the enum.  An array the map has let go of (delete,      *)
(* clear) while a disposable or a call still refers to it is a spare: it   *)
(* is renamed to a spare identity, in the heap and in whatever refers to   *)
(* it, so that two states of the program that differ only in the           *)
(* addresses of their arrays are one state of the model.                   *)
(***************************************************************************)
TypeSlot(t) == CHOOSE i \in DOMAIN HookTypeSeq : HookTypeSeq[i] = t

\* One spare for each call and as many again for disposables.
SpareIds ==
    (Len(HookTypeSeq) + 1) .. (Len(HookTypeSeq) + 2 * Cardinality(CallIds))

ArrayIds == (DOMAIN HookTypeSeq) \cup SpareIds

VARIABLES
    registeredHooks,    \* _registeredHooks: HookType -> array (0: no entry)
    heap,               \* the content of each array
    handles,            \* the disposables of registerHook their callers hold
    calls,              \* the executeHooks calls
    loads,              \* the loadWorkspaceHooks calls
    hooksEnabled,       \* the setting 'hooks.enabled'
    chat,               \* the execute*Hook calls of the chat hooks service
    integ               \* the call of GitHooksIntegration / CopilotHooksIntegration

vars == << registeredHooks, heap, handles, calls, loads, hooksEnabled, chat, integ >>

(***************************************************************************)
(* Helpers on arrays.                                                      *)
(***************************************************************************)
\* The content of array a; 0 is the fresh `[]` of `get(hookType) || []`.
ArrayOf(hp, a) == IF a = 0 THEN << >> ELSE hp[a]

\* IndexOf comparing the fields of the objects instead of the objects.
IndexOfByValue(s, x) ==
    IF \E i \in 1 .. Len(s) : Configs[s[i]] = Configs[x]
    THEN CHOOSE i \in 1 .. Len(s) :
             Configs[s[i]] = Configs[x] /\ \A j \in 1 .. (i - 1) : Configs[s[j]] # Configs[x]
    ELSE 0

\* Array.prototype.indexOf (1-based; 0 for JavaScript's -1).
IndexOf(s, x) ==
    IF \E i \in 1 .. Len(s) : s[i] = x
    THEN CHOOSE i \in 1 .. Len(s) : s[i] = x /\ \A j \in 1 .. (i - 1) : s[j] # x
    ELSE 0

\* Array.prototype.splice(index, 1)
Splice(s, i) == [ j \in 1 .. (Len(s) - 1) |-> IF j < i THEN s[j] ELSE s[j + 1] ]

\* The arrays a disposable or a call made refers to.
Pinned(hs, cs) ==
    ({ h.arr : h \in hs } \cup { cs[k].arr : k \in DOMAIN cs }) \ { 0 }

\* Garbage collection: a spare nothing refers to any more has no content.
Collect(hp, hs, cs) ==
    [ a \in ArrayIds |->
        IF a \in SpareIds /\ a \notin Pinned(hs, cs) THEN << >> ELSE hp[a] ]

\* The least spare identity nothing refers to.
FreeSpare(st) ==
    CHOOSE o \in SpareIds :
        /\ o \notin Pinned(st.handles, st.calls)
        /\ \A b \in SpareIds : b \notin Pinned(st.handles, st.calls) => o <= b

\* Array a becomes spare o.
Rename(st, a, o) ==
    [ st EXCEPT
        !.heap = [ st.heap EXCEPT ![o] = st.heap[a], ![a] = << >> ],
        !.handles = { [ h EXCEPT !.arr = IF h.arr = a THEN o ELSE h.arr ] : h \in st.handles },
        !.calls = [ k \in DOMAIN st.calls |->
                      [ st.calls[k] EXCEPT !.arr = IF st.calls[k].arr = a THEN o ELSE @ ] ] ]

\* The array of a call made has changed.
touch(cs, a) ==
    [ k \in DOMAIN cs |->
        IF cs[k].pc # "idle" /\ cs[k].arr = a
        THEN [ cs[k] EXCEPT !.touched = TRUE ]
        ELSE cs[k] ]

(***************************************************************************)
(* The registry.  st is the state the registry operations work on: the     *)
(* map, the heap, and the disposables and calls that refer to arrays.      *)
(***************************************************************************)
\* registerHook putting the configuration at the head of the list (unshift).
registerHookFirst(st, hookType, configuration) ==
    IF st.map[hookType] = 0
    THEN [ st EXCEPT !.map[hookType] = TypeSlot(hookType),
                     !.heap[TypeSlot(hookType)] = << configuration >> ]
    ELSE [ st EXCEPT !.heap[st.map[hookType]] = << configuration >> \o @,
                     !.calls = touch(st.calls, st.map[hookType]) ]

\* registerHook, without the disposable it returns (disposableOf).
registerHook(st, hookType, configuration) ==
    IF st.map[hookType] = 0
    THEN [ st EXCEPT !.map[hookType] = TypeSlot(hookType),
                     !.heap[TypeSlot(hookType)] = << configuration >> ]
    ELSE [ st EXCEPT !.heap[st.map[hookType]] = Append(@, configuration),
                     !.calls = touch(st.calls, st.map[hookType]) ]

\* The disposable registerHook returns: the closure over `hooks` and
\* `configuration`.  st is the registry after the registration.
disposableOf(st, hookType, configuration) ==
    [ arr |-> st.map[hookType], cfg |-> configuration, disposed |-> FALSE ]

\* disposeHook looking the configuration up in every array instead of the
\* array the closure holds.
disposeHookAnywhere(st, h) ==
    [ st EXCEPT
        !.heap = [ a \in ArrayIds |->
                     IF IndexOf(st.heap[a], h.cfg) # 0
                     THEN Splice(st.heap[a], IndexOf(st.heap[a], h.cfg))
                     ELSE st.heap[a] ] ]

\* The body of the disposable: indexOf, then splice if found.
disposeHook(st, h) ==
    LET index == IndexOf(st.heap[h.arr], h.cfg)
    IN  IF index # 0
        THEN [ st EXCEPT !.heap[h.arr] = Splice(@, index),
                         !.calls = touch(st.calls, h.arr) ]
        ELSE st

\* dispose() of the disposable toDisposable makes of the body: the body is
\* run by the first invocation only.
toDisposable(st, h) ==
    IF h.disposed
    THEN st
    ELSE [ disposeHook(st, h) EXCEPT
             !.handles = (@ \ { h }) \cup { [ h EXCEPT !.disposed = TRUE ] } ]

\* mapDelete emptying the array in place (hooks.length = 0) and keeping
\* it in the map.
mapDeleteInPlace(st, hookType) ==
    IF st.map[hookType] = 0
    THEN st
    ELSE [ st EXCEPT !.heap[st.map[hookType]] = << >> ]

\* this._registeredHooks.delete(hookType)
mapDelete(st, hookType) ==
    LET a == st.map[hookType]
    IN  IF a = 0
        THEN st
        ELSE IF a \in Pinned(st.handles, st.calls)
        THEN [ Rename(st, a, FreeSpare(st)) EXCEPT !.map[hookType] = 0 ]
        ELSE [ st EXCEPT !.map[hookType] = 0, !.heap[a] = << >> ]

\* clearHooks calling this._registeredHooks.clear() instead of delete.
RECURSIVE deleteFrom(_, _)
deleteFrom(st, i) ==
    IF i > Len(HookTypeSeq)
    THEN st
    ELSE deleteFrom(mapDelete(st, HookTypeSeq[i]), i + 1)

clearHooksOfAllTypes(st, hookType) == deleteFrom(st, 1)

\* clearHooks
clearHooks(st, hookType) == mapDelete(st, hookType)

getHooks(hookType) == ArrayOf(heap, registeredHooks[hookType])

\* hasHooks without the test of the length.
hasHooksEntryOnly(hookType) == registeredHooks[hookType] # 0

\* hasHooks looking at the whole map instead of the list of the type.
hasHooksOfAnyType(hookType) ==
    \E t \in HookType : registeredHooks[t] # 0 /\ Len(heap[registeredHooks[t]]) > 0

hasHooks(hookType) ==
    registeredHooks[hookType] # 0 /\ Len(heap[registeredHooks[hookType]]) > 0

\* The state the registry operations work on, and its parts as the
\* variables' next values.
State == [ map |-> registeredHooks, heap |-> heap, handles |-> handles, calls |-> calls ]

Becomes(st) ==
    /\ registeredHooks' = st.map
    /\ heap' = Collect(st.heap, st.handles, st.calls)
    /\ handles' = st.handles
    /\ calls' = st.calls

(***************************************************************************)
(* executeHook and the results of executeHooks.                            *)
(***************************************************************************)
\* hook.script || hook.command
ScriptOrCommand(hook) == IF hook.script # "" THEN hook.script ELSE hook.command

\* const timeoutMs = hook.timeout || 5000
timeoutMs(hook) == IF hook.timeout # 0 THEN hook.timeout ELSE DefaultTimeout

\* The time from the start of a hook's run to its result: the
\* `await timeout(100)` of executeHook.
runDuration(hook) == SimulatedDelay

\* The result executeHook resolves with.
simulatedResult(hook) ==
    [ exitCode      |-> 0,
      stdout        |-> << "Simulated execution of hook: ", ScriptOrCommand(hook) >>,
      stderr        |-> "",
      success       |-> TRUE,
      executionTime |-> 0 ]

\* errorResult with the exit code 1 and a fixed text for stderr.
errorResultGeneric(message) ==
    [ exitCode      |-> 1,
      stdout        |-> << >>,
      stderr        |-> "Hook failed",
      success       |-> FALSE,
      executionTime |-> 0 ]

\* The result built in the catch block of executeHooks.
errorResult(message) ==
    [ exitCode      |-> ErrorExitCode,
      stdout        |-> << >>,
      stderr        |-> message,
      success       |-> FALSE,
      executionTime |-> 0 ]

\* The result of one hook run, by what the run did.
resultOf(hook, outcome) ==
    IF outcome.throws THEN errorResult(outcome.message) ELSE simulatedResult(hook)

\* abortsAfter without the `break` of the catch block.
abortsAfterTryOnly(hook, outcome, result) ==
    IF outcome.throws
    THEN FALSE
    ELSE ~result.success /\ hook.abortOnFailure

\* abortsAfter with a catch block that breaks whatever abortOnFailure is.
abortsAfterAnyThrow(hook, outcome, result) ==
    IF outcome.throws
    THEN TRUE
    ELSE ~result.success /\ hook.abortOnFailure

\* Whether the loop breaks after this hook: line 85 in the try block,
\* line 109 in the catch block.
abortsAfter(hook, outcome, result) ==
    IF outcome.throws
    THEN hook.abortOnFailure
    ELSE ~result.success /\ hook.abortOnFailure

\* A call not made.  Of a call made: the array it iterates, the iterator's
\* index, the results, the events fired; and, to state properties, the
\* configurations run, what each run did, the order of the call's steps,
\* whether registerHook or a disposable changed the array since the call
\* started, and the content of the array when the call started.
IdleCall ==
    [ pc |-> "idle", hookType |-> "pre-commit", context |-> "pre-commit",
      arr |-> 0, idx |-> 0, results |-> << >>, fired |-> << >>,
      ran |-> << >>, outcomes |-> << >>, trace |-> << >>, touched |-> FALSE,
      started |-> << >> ]

\* loopHead iterating the array from its end.
loopHeadReversed(call, hp) ==
    IF call.idx < Len(ArrayOf(hp, call.arr))
    THEN [ call EXCEPT !.pc = "running",
                       !.idx = call.idx + 1,
                       !.ran = Append(@, ArrayOf(hp, call.arr)[Len(ArrayOf(hp, call.arr)) - call.idx]),
                       !.trace = Append(@, << "start", Len(call.ran) + 1 >>) ]
    ELSE [ call EXCEPT !.pc = "done" ]

\* The loop head of `for (const hook of hooks)`: the array iterator reads
\* the live array.  Either the next hook is started (executeHook runs to
\* its await) or the loop ends and the call returns.
loopHead(call, hp) ==
    IF call.idx < Len(ArrayOf(hp, call.arr))
    THEN [ call EXCEPT !.pc = "running",
                       !.idx = call.idx + 1,
                       !.ran = Append(@, ArrayOf(hp, call.arr)[call.idx + 1]),
                       !.trace = Append(@, << "start", Len(call.ran) + 1 >>) ]
    ELSE [ call EXCEPT !.pc = "done" ]

\* startCall reading the list of context.hookType.
startCallByContext(map, hp, hookType, context) ==
    loopHead([ IdleCall EXCEPT !.hookType = hookType,
                               !.context = context,
                               !.arr = map[context],
                               !.started = ArrayOf(hp, map[context]) ], hp)

\* executeHooks up to its first suspension.
startCall(map, hp, hookType, context) ==
    loopHead([ IdleCall EXCEPT !.hookType = hookType,
                               !.context = context,
                               !.arr = map[hookType],
                               !.started = ArrayOf(hp, map[hookType]) ], hp)

\* The event fired for run n of the call.
eventOf(call, n, result) ==
    [ hookType      |-> call.hookType,
      configuration |-> call.ran[n],
      result        |-> result,
      context       |-> call.context ]

\* afterHook starting the next hook before the result of this one is
\* pushed and its event fired.
afterHookEager(call, hp, outcome) ==
    LET n        == Len(call.ran)
        hook     == Configs[call.ran[n]]
        result   == resultOf(hook, outcome)
        finished == [ call EXCEPT !.trace = Append(@, << "finish", n >>) ]
        next     == IF abortsAfter(hook, outcome, result)
                    THEN [ finished EXCEPT !.pc = "done" ]
                    ELSE loopHead(finished, hp)
    IN  [ next EXCEPT !.results = Append(@, result),
                      !.fired = Append(@, eventOf(call, n, result)),
                      !.outcomes = Append(@, outcome),
                      !.trace = @ \o << << "push", n >>, << "fire", n >> >> ]

\* afterHook with a catch block that fires no event.
afterHookSilentCatch(call, hp, outcome) ==
    LET n      == Len(call.ran)
        hook   == Configs[call.ran[n]]
        result == resultOf(hook, outcome)
        pushed == [ call EXCEPT
                      !.results = Append(@, result),
                      !.fired = IF outcome.throws THEN @ ELSE Append(@, eventOf(call, n, result)),
                      !.outcomes = Append(@, outcome),
                      !.trace = @ \o << << "finish", n >>, << "push", n >>,
                                        << "fire", n >> >> ]
    IN  IF abortsAfter(hook, outcome, result)
        THEN [ pushed EXCEPT !.pc = "done" ]
        ELSE loopHead(pushed, hp)

\* The loop body after `await this.executeHook(hook, context)` settles:
\* push the result, fire the event, break or go on to the loop head.
afterHook(call, hp, outcome) ==
    LET n      == Len(call.ran)
        hook   == Configs[call.ran[n]]
        result == resultOf(hook, outcome)
        pushed == [ call EXCEPT
                      !.results = Append(@, result),
                      !.fired = Append(@, eventOf(call, n, result)),
                      !.outcomes = Append(@, outcome),
                      !.trace = @ \o << << "finish", n >>, << "push", n >>,
                                        << "fire", n >> >> ]
    IN  IF abortsAfter(hook, outcome, result)
        THEN [ pushed EXCEPT !.pc = "done" ]
        ELSE loopHead(pushed, hp)

\* settle with one results array for all calls: the result of a run is
\* pushed for every call in flight.
settleShared(cs, k, hp, outcome) ==
    LET settled == afterHook(cs[k], hp, outcome)
    IN  [ j \in DOMAIN cs |->
            IF j = k
            THEN settled
            ELSE IF cs[j].pc = "running"
            THEN [ cs[j] EXCEPT !.results = Append(@, settled.results[Len(settled.results)]) ]
            ELSE cs[j] ]

\* The calls after the executeHook of call k has settled: `results` is a
\* local of each call, so the loop body of call k writes the results of
\* call k only.
settle(cs, k, hp, outcome) == [ cs EXCEPT ![k] = afterHook(cs[k], hp, outcome) ]

\* hooksAfterRun taking each hook off the array as it is run (shift).
hooksAfterRunShifted(hp, call) ==
    IF call.arr # 0 /\ hp[call.arr] # << >>
    THEN [ hp EXCEPT ![call.arr] = Tail(@) ]
    ELSE hp

\* The arrays after the loop body has run for a hook: the loop reads
\* `hooks` and `hook` and writes neither.
hooksAfterRun(hp, call) == hp

(***************************************************************************)
(* The caller integrations (HooksIntegration, GitHooksIntegration,         *)
(* CopilotHooksIntegration): hasHooks, executeHooks, then the loop over    *)
(* the results.                                                            *)
(***************************************************************************)
\* Whether the integration lets its action proceed (returns true, or the
\* prompt or context): there were no hooks, or no result has
\* success=false.
proceeds(hadHooks, results) ==
    IF ~hadHooks
    THEN TRUE
    ELSE \A i \in 1 .. Len(results) : results[i].success

(***************************************************************************)
(* GitHooksIntegration and CopilotHooksIntegration                         *)
(* (browser/workbenchIntegration.ts).  A method tests hasHooks (and, in    *)
(* the Git integration, the workspace folder), awaits executeHooks and     *)
(* reads the results.                                                      *)
(***************************************************************************)
\* The methods, each with the event type it runs.
MethodType ==
    [ executePreCommitHooks        |-> "pre-commit",
      executePrePushHooks          |-> "pre-push",
      executePrePullHooks          |-> "pre-pull",
      executePreCopilotPromptHooks |-> "pre-copilot-prompt" ]

Methods == DOMAIN MethodType

GitMethods == { "executePreCommitHooks", "executePrePushHooks", "executePrePullHooks" }

\* The prompt executePreCopilotPromptHooks is called with.
Prompts == { "explain this" }

\* String.prototype.trim on a text held as its pieces (the parts of a
\* template literal): empty pieces contribute nothing, and of the texts of
\* the model only the literal part of executeHook's stdout ends in white
\* space.
StripEnd(piece) ==
    IF piece = "Simulated execution of hook: "
    THEN "Simulated execution of hook:"
    ELSE piece

trim(pieces) ==
    LET text == SelectSeq(pieces, LAMBDA q : q # "")
    IN  IF text = << >>
        THEN << >>
        ELSE [ text EXCEPT ![Len(text)] = StripEnd(@) ]

\* A method not called.  Of a call: the method, whether the workspace has
\* a folder, the prompt, whether executeHooks was called, the results it
\* returned, and what the method returned: a boolean (ok) from the Git
\* integration, null or a text from the Copilot integration.
IdleInteg ==
    [ pc |-> "idle", method |-> "executePreCommitHooks", folder |-> FALSE,
      prompt |-> "", called |-> FALSE, results |-> << >>,
      ok |-> TRUE, null |-> FALSE, text |-> << >> ]

\* The method returns without calling executeHooks: true, or the prompt.
returnsEarly(made) ==
    [ made EXCEPT !.pc = "done",
                  !.text = IF made.method \in GitMethods THEN << >> ELSE << made.prompt >> ]

\* integrationStart without the test of the workspace folder.
integrationStartAnyFolder(method, folder, prompt, has) ==
    LET made == [ IdleInteg EXCEPT !.method = method, !.folder = folder, !.prompt = prompt ]
    IN  IF ~has
        THEN returnsEarly(made)
        ELSE [ made EXCEPT !.pc = "awaiting", !.called = TRUE ]

\* A method up to its return or to the await of executeHooks; has is
\* what hasHooks returns for the type of the method.
integrationStart(method, folder, prompt, has) ==
    LET made == [ IdleInteg EXCEPT !.method = method, !.folder = folder, !.prompt = prompt ]
    IN  IF ~has
        THEN returnsEarly(made)
        ELSE IF method \in GitMethods /\ ~folder
        THEN returnsEarly(made)
        ELSE [ made EXCEPT !.pc = "awaiting", !.called = TRUE ]

\* integrationReturn looking at the last result only.
integrationReturnLastOnly(call, results) ==
    LET got    == [ call EXCEPT !.pc = "done", !.results = results ]
        failed == results # << >> /\ ~results[Len(results)].success
        last   == IF results = << >> THEN << >> ELSE trim(results[Len(results)].stdout)
    IN  IF call.method \in GitMethods
        THEN [ got EXCEPT !.ok = ~failed ]
        ELSE IF failed
        THEN [ got EXCEPT !.null = TRUE ]
        ELSE IF last # << >>
        THEN [ got EXCEPT !.text = last ]
        ELSE [ got EXCEPT !.text = << call.prompt >> ]

\* A method from the return of executeHooks on: the loop over the results,
\* and in executePreCopilotPromptHooks the stdout of the last result.
integrationReturn(call, results) ==
    LET got    == [ call EXCEPT !.pc = "done", !.results = results ]
        failed == \E i \in 1 .. Len(results) : ~results[i].success
        last   == IF results = << >> THEN << >> ELSE trim(results[Len(results)].stdout)
    IN  IF call.method \in GitMethods
        THEN [ got EXCEPT !.ok = ~failed ]
        ELSE IF failed
        THEN [ got EXCEPT !.null = TRUE ]
        ELSE IF last # << >>
        THEN [ got EXCEPT !.text = last ]
        ELSE [ got EXCEPT !.text = << call.prompt >> ]

(***************************************************************************)
(* loadWorkspaceHooks and loadHooksFromConfig.                             *)
(***************************************************************************)
\* this._registeredHooks.clear(): the entries of types i .. 8 deleted.
RECURSIVE mapClearFrom(_, _)
mapClearFrom(st, i) ==
    IF i > Len(HookTypeSeq)
    THEN st
    ELSE mapClearFrom(mapDelete(st, HookTypeSeq[i]), i + 1)

mapClear(st) == mapClearFrom(st, 1)

\* configsOf taking arrays only: a value that is no array gives no
\* configurations.
configsOfArraysOnly(entry) == IF entry.isArray THEN entry.elems ELSE << >>

\* const configs = Array.isArray(hookConfigs) ? hookConfigs : [hookConfigs]
configsOf(entry) == IF entry.isArray THEN entry.elems ELSE << entry.elems[1] >>

\* registerConfigs without the test isObject(hookConfig).
RECURSIVE registerConfigsUntested(_, _, _, _)
registerConfigsUntested(st, hookType, configs, i) ==
    IF i > Len(configs)
    THEN st
    ELSE registerConfigsUntested(registerHook(st, hookType, configs[i]),
                                 hookType, configs, i + 1)

\* The inner loop: registerHook for the elements i .. of configs that are
\* objects.
RECURSIVE registerConfigs(_, _, _, _)
registerConfigs(st, hookType, configs, i) ==
    IF i > Len(configs)
    THEN st
    ELSE registerConfigs(IF configs[i] # 0
                         THEN registerHook(st, hookType, configs[i])
                         ELSE st,
                         hookType, configs, i + 1)

\* loadEntries leaving the loop at a key that is no hook type.
RECURSIVE loadEntriesStopAtUnknown(_, _, _)
loadEntriesStopAtUnknown(st, entries, i) ==
    IF i > Len(entries) \/ entries[i].key \notin HookType
    THEN st
    ELSE loadEntriesStopAtUnknown(
             registerConfigs(st, entries[i].key, configsOf(entries[i]), 1),
             entries, i + 1)

\* The outer loop over Object.entries(config.hooks), from entry i on.
RECURSIVE loadEntries(_, _, _)
loadEntries(st, entries, i) ==
    IF i > Len(entries)
    THEN st
    ELSE loadEntries(IF entries[i].key \in HookType
                     THEN registerConfigs(st, entries[i].key, configsOf(entries[i]), 1)
                     ELSE st,
                     entries, i + 1)

\* loadHooksFromConfig without this._registeredHooks.clear().
loadHooksFromConfigKeeping(st, config) ==
    IF ~config.isObject \/ config.hooksKind # "object"
    THEN st
    ELSE loadEntries(st, config.entries, 1)

\* loadHooksFromConfig.  Of a value that is not an object `config.hooks`
\* is undefined or throws into the catch of loadWorkspaceHooks: nothing
\* is loaded either way.
loadHooksFromConfig(st, config) ==
    IF ~config.isObject \/ config.hooksKind # "object"
    THEN st
    ELSE loadEntries(mapClear(st), config.entries, 1)

\* loadWorkspaceHooks up to the read of the file: the settings.
loadSettings(st, config) ==
    IF config.isObject THEN loadHooksFromConfig(st, config) ELSE st

\* loadWorkspaceHooks from the read of the file on.
loadFile(st, outcome) ==
    IF outcome.throws THEN st ELSE loadHooksFromConfig(st, FileValues[outcome.value])

\* A whole loadWorkspaceHooks call that nothing else interleaves with.
loadWorkspaceHooks(st, settings, folder, outcome) ==
    IF folder
    THEN loadFile(loadSettings(st, SettingsValues[settings]), outcome)
    ELSE loadSettings(st, SettingsValues[settings])

\* settleLoad without the try/catch around the read of the file.
settleLoadUncaught(outcome) == IF outcome.throws THEN "rejected" ELSE "done"

\* How the promise of loadWorkspaceHooks settles after the read of the
\* file: what the read or the parse throws is caught (line 168), so the
\* promise is fulfilled.
settleLoad(outcome) == "done"

\* What getHooks returns for each event type in a state of the registry.
contentOf(map, hp) == [ t \in HookType |-> ArrayOf(hp, map[t]) ]

\* A loadWorkspaceHooks call: the settings value it read, whether the
\* workspace has a folder, what the read of the file did; and, while the
\* call awaits the read, whether its first half (the settings) has changed
\* what getHooks returns.
IdleLoad ==
    [ pc |-> "idle", settings |-> 1, folder |-> FALSE,
      file |-> [ throws |-> TRUE, value |-> 0 ],
      partial |-> FALSE ]

(***************************************************************************)
(* The chat hooks service (chat/common/hooksServiceImpl.ts): one           *)
(* execute*Hook method for each of its hook types, each call with the      *)
(* cancellation token its caller gives it.                                 *)
(***************************************************************************)
ChatHookTypes == { "pre-copilot-chat-prompt", "pre-context-attach", "post-copilot-response" }

\* What getHookConfiguration returns: undefined (no configuration, or
\* enabled: false), a configuration with a script, with a command, or with
\* neither.
ChatConfigs == { "none", "script", "command", "empty" }

NoResult == [ success |-> TRUE, shouldContinue |-> TRUE, error |-> "none yet" ]

\* { success: true, shouldContinue: true }
ContinueResult == [ success |-> TRUE, shouldContinue |-> TRUE, error |-> "" ]

\* { success: false, shouldContinue: false, error: 'Hook execution cancelled' }
CancelledResult ==
    [ success |-> FALSE, shouldContinue |-> FALSE, error |-> "Hook execution cancelled" ]

\* The contexts a caller passes: one JSON.stringify serialises, and one
\* whose attachedContext holds a cycle.
ChatContexts == { "plain", "cyclic" }

\* buildCommand: JSON.stringify throws on a cycle; a configuration with
\* neither script nor command throws; otherwise the command is built.
buildCommand(cfg, context) ==
    IF context = "cyclic"
    THEN [ throws |-> TRUE, message |-> "Converting circular structure to JSON" ]
    ELSE IF cfg \in { "script", "command" }
    THEN [ throws |-> FALSE, message |-> "" ]
    ELSE [ throws |-> TRUE,
           message |-> "Hook configuration must specify either script or command" ]

\* The result of the catch block of executeHook.
BuildErrorResult(message) ==
    [ success |-> FALSE, shouldContinue |-> TRUE, error |-> message ]

\* A call not made, with its token.  Of a call made: the configuration,
\* the context and the environment it found, whether its token is cancelled, whether
\* simulateHookExecution was called (the hook started), whether the timer
\* is set, and the result it returned.
IdleChat ==
    [ pc |-> "idle", cfg |-> "none", context |-> "plain",
      sandboxed |-> FALSE, cancelled |-> FALSE,
      started |-> FALSE, timer |-> FALSE, result |-> NoResult ]

\* resolve(value) of the promise of simulateHookExecution, and the return
\* of executeHook that awaits it: a promise is settled once.
resolve(c, value) ==
    IF c.pc = "running"
    THEN [ c EXCEPT !.pc = "done", !.result = value ]
    ELSE c

\* executeHookOf without its try/catch: what buildCommand throws rejects
\* the promise of the call.
executeHookUncaught(c, cfg, context, sandboxed) ==
    LET made == [ c EXCEPT !.cfg = cfg, !.context = context, !.sandboxed = sandboxed ]
        command == buildCommand(cfg, context)
    IN  IF cfg = "none"
        THEN [ made EXCEPT !.pc = "done", !.result = ContinueResult ]
        ELSE IF sandboxed
        THEN [ made EXCEPT !.pc = "done", !.result = ContinueResult ]
        ELSE IF command.throws
        THEN [ made EXCEPT !.pc = "rejected" ]
        ELSE IF c.cancelled
        THEN [ made EXCEPT !.pc = "done", !.result = CancelledResult ]
        ELSE [ made EXCEPT !.pc = "running", !.started = TRUE, !.timer = TRUE ]

\* executeHookOf without the test of token.isCancellationRequested.
executeHookUnchecked(c, cfg, context, sandboxed) ==
    LET made == [ c EXCEPT !.cfg = cfg, !.context = context, !.sandboxed = sandboxed ]
        command == buildCommand(cfg, context)
    IN  IF cfg = "none"
        THEN [ made EXCEPT !.pc = "done", !.result = ContinueResult ]
        ELSE IF sandboxed
        THEN [ made EXCEPT !.pc = "done", !.result = ContinueResult ]
        ELSE IF command.throws
        THEN [ made EXCEPT !.pc = "done", !.result = BuildErrorResult(command.message) ]
        ELSE [ made EXCEPT !.pc = "running", !.started = TRUE, !.timer = TRUE ]

\* executeHook up to its return or to the await of simulateHookExecution.
executeHookOf(c, cfg, context, sandboxed) ==
    LET made == [ c EXCEPT !.cfg = cfg, !.context = context, !.sandboxed = sandboxed ]
        command == buildCommand(cfg, context)
    IN  IF cfg = "none"
        THEN [ made EXCEPT !.pc = "done", !.result = ContinueResult ]
        ELSE IF sandboxed
        THEN [ made EXCEPT !.pc = "done", !.result = ContinueResult ]
        ELSE IF command.throws
        THEN [ made EXCEPT !.pc = "done", !.result = BuildErrorResult(command.message) ]
        ELSE IF c.cancelled
        THEN [ made EXCEPT !.pc = "done", !.result = CancelledResult ]
        ELSE [ made EXCEPT !.pc = "running", !.started = TRUE, !.timer = TRUE ]

\* The timer callback of simulateHookExecution.
timerFires(c) ==
    resolve([ c EXCEPT !.timer = FALSE ],
            [ success |-> TRUE, shouldContinue |-> TRUE, error |-> "" ])

\* The token is cancelled: the listener simulateHookExecution registered,
\* if the call got there, clears the timer and resolves.
cancel(c) ==
    IF c.cancelled
    THEN c
    ELSE IF c.started
    THEN resolve([ c EXCEPT !.cancelled = TRUE, !.timer = FALSE ], CancelledResult)
    ELSE [ c EXCEPT !.cancelled = TRUE ]

(***************************************************************************)
(* Actions.                                                                *)
(***************************************************************************)
Init ==
    /\ registeredHooks = [ t \in HookType |-> 0 ]
    /\ heap = [ a \in ArrayIds |-> << >> ]
    /\ handles = { }
    /\ calls = [ k \in CallIds |-> IdleCall ]
    /\ loads = [ l \in LoadIds |-> IdleLoad ]
    /\ hooksEnabled = TRUE
    /\ chat = [ h \in ChatHookTypes |-> IdleChat ]
    /\ integ = IdleInteg

\* registerHook(hookType, configuration); the caller keeps the disposable
\* or lets go of it.
RegisterHook(hookType, configuration, keep) ==
    LET st == registerHook(State, hookType, configuration)
        h  == disposableOf(st, hookType, configuration)
    IN  /\ Len(st.heap[h.arr]) <= MaxLen
        /\ Becomes([ st EXCEPT !.handles = IF keep THEN @ \cup { h } ELSE @ ])
        /\ UNCHANGED << loads, hooksEnabled, chat, integ >>

\* disposable.dispose()
Dispose(h) ==
    /\ h \in handles
    /\ Becomes(toDisposable(State, h))
    /\ UNCHANGED << loads, hooksEnabled, chat, integ >>

\* The holder of a disposable lets go of it.
Release(h) ==
    /\ h \in handles
    /\ Becomes([ State EXCEPT !.handles = @ \ { h } ])
    /\ UNCHANGED << loads, hooksEnabled, chat, integ >>

ClearHooks(hookType) ==
    /\ Becomes(clearHooks(State, hookType))
    /\ UNCHANGED << loads, hooksEnabled, chat, integ >>

ExecuteHooks(k, hookType, context) ==
    /\ calls[k].pc = "idle"
    /\ calls' = [calls EXCEPT ![k] = startCall(registeredHooks, heap, hookType, context)]
    /\ UNCHANGED << registeredHooks, heap, handles, loads, hooksEnabled, chat, integ >>

HookSettles(k, outcome) ==
    /\ calls[k].pc = "running"
    /\ calls' = settle(calls, k, heap, outcome)
    /\ heap' = hooksAfterRun(heap, calls[k])
    /\ UNCHANGED << registeredHooks, handles, loads, hooksEnabled, chat, integ >>

\* The caller has its results; the slot is free for another call.
Return(k) ==
    /\ calls[k].pc = "done"
    /\ Becomes([ State EXCEPT !.calls[k] = IdleCall ])
    /\ UNCHANGED << loads, hooksEnabled, chat, integ >>

\* loadWorkspaceHooks() is called: the settings are loaded, then the call
\* awaits the read of the file, or returns if the workspace has no folder.
LoadWorkspaceHooks(l, settings, folder) ==
    /\ loads[l].pc # "reading"
    /\ Becomes(loadSettings(State, SettingsValues[settings]))
    /\ loads' = [loads EXCEPT ![l] = [ IdleLoad EXCEPT
                                         !.pc = IF folder THEN "reading" ELSE "done",
                                         !.settings = settings,
                                         !.folder = folder,
                                         !.partial =
                                             /\ folder
                                             /\ contentOf(registeredHooks', heap')
                                                    # contentOf(registeredHooks, heap) ]]
    /\ UNCHANGED << hooksEnabled, chat, integ >>

\* The read of the file settles and loadWorkspaceHooks runs to its end.
FileRead(l, outcome) ==
    /\ loads[l].pc = "reading"
    /\ Becomes(loadFile(State, outcome))
    /\ loads' = [loads EXCEPT ![l] = [ IdleLoad EXCEPT
                                         !.pc = settleLoad(outcome),
                                         !.settings = loads[l].settings,
                                         !.folder = TRUE,
                                         !.file = outcome ]]
    /\ UNCHANGED << hooksEnabled, chat, integ >>

\* The setting 'hooks.enabled' is changed.
SetEnabled(b) ==
    /\ hooksEnabled # b
    /\ hooksEnabled' = b
    /\ UNCHANGED << registeredHooks, heap, handles, calls, loads, chat, integ >>

\* execute*Hook(context, token) of the chat hooks service is called.
ChatExecute(h, cfg, context, sandboxed) ==
    /\ chat[h].pc = "idle"
    /\ chat' = [chat EXCEPT ![h] = executeHookOf(chat[h], cfg, context, sandboxed)]
    /\ UNCHANGED << registeredHooks, heap, handles, calls, loads, hooksEnabled, integ >>

\* The 100 ms timer of simulateHookExecution fires.
ChatTimer(h) ==
    /\ chat[h].timer
    /\ chat' = [chat EXCEPT ![h] = timerFires(chat[h])]
    /\ UNCHANGED << registeredHooks, heap, handles, calls, loads, hooksEnabled, integ >>

\* The host cancels the token of the call: before the call, while it is
\* in flight or after it has returned.
ChatCancel(h) ==
    /\ ~chat[h].cancelled
    /\ chat' = [chat EXCEPT ![h] = cancel(chat[h])]
    /\ UNCHANGED << registeredHooks, heap, handles, calls, loads, hooksEnabled, integ >>

\* The caller has its result; the next call comes with a new token.
ChatReturn(h) ==
    /\ chat[h].pc = "done"
    /\ chat' = [chat EXCEPT ![h] = IdleChat]
    /\ UNCHANGED << registeredHooks, heap, handles, calls, loads, hooksEnabled, integ >>

\* A method of the Git or Copilot integration is called; its executeHooks
\* call is call 1.
IntegrationCall(method, folder, prompt) ==
    LET type == MethodType[method]
        next == integrationStart(method, folder, prompt, hasHooks(type))
    IN  /\ integ.pc = "idle"
        /\ calls[1].pc = "idle"
        /\ integ' = next
        /\ Becomes(IF next.called
                   THEN [ State EXCEPT !.calls[1] = startCall(registeredHooks, heap, type, type) ]
                   ELSE State)
        /\ UNCHANGED << loads, hooksEnabled, chat >>

\* executeHooks has returned and the method runs to its end.
IntegrationReturn ==
    /\ integ.pc = "awaiting"
    /\ calls[1].pc = "done"
    /\ integ' = integrationReturn(integ, calls[1].results)
    /\ Becomes([ State EXCEPT !.calls[1] = IdleCall ])
    /\ UNCHANGED << loads, hooksEnabled, chat >>

\* The caller of the method has what it returned.
IntegrationRead ==
    /\ integ.pc = "done"
    /\ integ' = IdleInteg
    /\ UNCHANGED << registeredHooks, heap, handles, calls, loads, hooksEnabled, chat >>

\* No executeHooks call is in flight or waiting to be read.
Quiet == \A k \in CallIds : calls[k].pc = "idle"

(***************************************************************************)
(* The registry and the execution pipeline under the single-threaded       *)
(* access discipline: one executeHooks call at a time, the registry        *)
(* changed between calls only; one disposable held at a time, and none     *)
(* when a type is cleared (a call never sees an array the map has let go   *)
(* of).                                                                    *)
(***************************************************************************)
Next ==
    \/ Quiet /\ \E t \in TypeInputs, c \in { 1, 2 }, keep \in BOOLEAN :
                  (keep => handles = { }) /\ RegisterHook(t, c, keep)
    \/ Quiet /\ \E h \in handles : Dispose(h)
    \/ Quiet /\ \E h \in handles : Release(h)
    \/ Quiet /\ handles = { } /\ \E t \in TypeInputs : ClearHooks(t)
    \/ \E t \in TypeInputs, c \in TypeInputs : ExecuteHooks(1, t, c)
    \/ \E o \in Outcomes : HookSettles(1, o)
    \/ Return(1)

Spec == Init /\ [][Next]_vars

(***************************************************************************)
(* The registry and the reload: one loadWorkspaceHooks call at a time,     *)
(* with registrations and clears before, during and after it.              *)
(***************************************************************************)
NextReload ==
    \/ \E t \in TypeInputs, c \in { 1, 2 } : RegisterHook(t, c, FALSE)
    \/ \E t \in TypeInputs : ClearHooks(t)
    \/ \E v \in DOMAIN SettingsValues, folder \in BOOLEAN : LoadWorkspaceHooks(1, v, folder)
    \/ \E o \in FileOutcomes : FileRead(1, o)

SpecReload == Init /\ [][NextReload]_vars

\* No loadWorkspaceHooks call awaits the read of the file.
LoadQuiet == \A l \in LoadIds : loads[l].pc # "reading"

(***************************************************************************)
(* An executeHooks call and a loadWorkspaceHooks call overlapping: each    *)
(* starts and goes on while the other awaits.  registerHook is called      *)
(* before them only, and for one type, so that what the registry holds     *)
(* during a load is the doing of the load alone.                           *)
(***************************************************************************)
NextOverlap ==
    \/ Quiet /\ LoadQuiet /\ \E c \in { 1, 2 } : RegisterHook("pre-commit", c, FALSE)
    \/ \E t \in TypeInputs : ExecuteHooks(1, t, t)
    \/ \E o \in Outcomes : HookSettles(1, o)
    \/ Return(1)
    \/ \E v \in DOMAIN SettingsValues, folder \in BOOLEAN : LoadWorkspaceHooks(1, v, folder)
    \/ \E o \in FileOutcomes : FileRead(1, o)

SpecOverlap == Init /\ [][NextOverlap]_vars

(***************************************************************************)
(* registerHook called while an executeHooks call awaits a hook.           *)
(***************************************************************************)
NextLive ==
    \/ \E t \in TypeInputs, c \in { 1, 2 } : RegisterHook(t, c, FALSE)
    \/ \E t \in TypeInputs : ExecuteHooks(1, t, t)
    \/ \E o \in Outcomes : HookSettles(1, o)
    \/ Return(1)

SpecLive == Init /\ [][NextLive]_vars

(***************************************************************************)
(* The registry and its disposables, with configuration objects of equal   *)
(* field values (2 and 4): a disposable is invoked before and after its    *)
(* type is cleared, once and again.                                        *)
(***************************************************************************)
NextDispose ==
    \/ \E t \in TypeInputs, c \in { 2, 4 }, keep \in BOOLEAN :
          (keep => handles = { }) /\ RegisterHook(t, c, keep)
    \/ \E h \in handles : Dispose(h)
    \/ \E h \in handles : Release(h)
    \/ \E t \in TypeInputs : ClearHooks(t)

SpecDispose == Init /\ [][NextDispose]_vars

(***************************************************************************)
(* Configurations with both a script and a command, or with neither,       *)
(* given to registerHook and read from the workspace file, and then run.   *)
(***************************************************************************)
NextInvalid ==
    \/ Quiet /\ \E c \in { 2, 7, 8 } : RegisterHook("pre-commit", c, FALSE)
    \/ Quiet /\ LoadWorkspaceHooks(1, 1, TRUE)
    \/ Quiet /\ \E o \in { x \in FileOutcomes : x.throws \/ x.value = 5 } : FileRead(1, o)
    \/ ExecuteHooks(1, "pre-commit", "pre-commit")
    \/ \E o \in Outcomes : HookSettles(1, o)
    \/ Return(1)

SpecInvalid == Init /\ [][NextInvalid]_vars

(***************************************************************************)
(* Reloads in succession: hooks are registered, then loadWorkspaceHooks is *)
(* called again and again, each call after the one before has completed    *)
(* and with nothing else in between.                                       *)
(***************************************************************************)
NextTwice ==
    \/ loads[1].pc = "idle" /\ \E t \in TypeInputs, c \in { 1, 2 } : RegisterHook(t, c, FALSE)
    \/ \E v \in DOMAIN SettingsValues, folder \in BOOLEAN : LoadWorkspaceHooks(1, v, folder)
    \/ \E o \in FileOutcomes : FileRead(1, o)

SpecTwice == Init /\ [][NextTwice]_vars

(***************************************************************************)
(* executeHooks with the setting 'hooks.enabled' switched on and off.      *)
(***************************************************************************)
NextEnabled ==
    \/ \E b \in BOOLEAN : SetEnabled(b)
    \/ Quiet /\ \E t \in TypeInputs, c \in { 1, 2 } : RegisterHook(t, c, FALSE)
    \/ \E t \in TypeInputs : ExecuteHooks(1, t, t)
    \/ \E o \in Outcomes : HookSettles(1, o)
    \/ Return(1)

SpecEnabled == Init /\ [][NextEnabled]_vars

(***************************************************************************)
(* The chat hooks service and the host that cancels tokens.                *)
(***************************************************************************)
NextChat ==
    \/ \E h \in ChatHookTypes, cfg \in ChatConfigs, context \in ChatContexts,
          sandboxed \in BOOLEAN :
          ChatExecute(h, cfg, context, sandboxed)
    \/ \E h \in ChatHookTypes : ChatTimer(h)
    \/ \E h \in ChatHookTypes : ChatCancel(h)
    \/ \E h \in ChatHookTypes : ChatReturn(h)

SpecChat == Init /\ [][NextChat]_vars

(***************************************************************************)
(* The Git integration over a registry that is changed between its calls:  *)
(* hooks are registered, and unregistered by their disposable, which       *)
(* leaves the empty list of a type in the map.                             *)
(***************************************************************************)
NextGit ==
    \/ Quiet /\ integ.pc = "idle"
          /\ \E m \in GitMethods, keep \in BOOLEAN :
                (keep => handles = { }) /\ RegisterHook(MethodType[m], 2, keep)
    \/ Quiet /\ integ.pc = "idle" /\ \E h \in handles : Dispose(h)
    \/ \E m \in GitMethods, folder \in BOOLEAN : IntegrationCall(m, folder, "")
    \/ \E o \in Outcomes : HookSettles(1, o)
    \/ IntegrationReturn
    \/ IntegrationRead

SpecGit == Init /\ [][NextGit]_vars

(***************************************************************************)
(* The Copilot integration, with hooks whose stdout ends in the name of a  *)
(* command and hooks whose stdout ends in white space.                     *)
(***************************************************************************)
NextCopilot ==
    \/ Quiet /\ integ.pc = "idle"
          /\ \E c \in { 2, 8 }, keep \in BOOLEAN :
                (keep => handles = { }) /\ RegisterHook("pre-copilot-prompt", c, keep)
    \/ Quiet /\ integ.pc = "idle" /\ \E h \in handles : Dispose(h)
    \/ \E folder \in BOOLEAN, prompt \in Prompts :
          IntegrationCall("executePreCopilotPromptHooks", folder, prompt)
    \/ \E o \in Outcomes : HookSettles(1, o)
    \/ IntegrationReturn
    \/ IntegrationRead

SpecCopilot == Init /\ [][NextCopilot]_vars

(***************************************************************************)
(* Disposables invoked while an executeHooks call awaits a hook.  Each     *)
(* configuration object is in the list once at most and no hook has        *)
(* abortOnFailure; hooks are registered between calls only.                *)
(***************************************************************************)
NextUnregister ==
    \/ Quiet /\ \E c \in { 2, 4, 6 } :
          /\ \A i \in 1 .. Len(getHooks("pre-commit")) : getHooks("pre-commit")[i] # c
          /\ RegisterHook("pre-commit", c, TRUE)
    \/ \E h \in handles : ~h.disposed /\ Dispose(h)
    \/ Quiet /\ \E h \in handles : h.disposed /\ Release(h)
    \/ ExecuteHooks(1, "pre-commit", "pre-commit")
    \/ \E o \in Outcomes : HookSettles(1, o)
    \/ Return(1)

SpecUnregister == Init /\ [][NextUnregister]_vars

(***************************************************************************)
(* Two executeHooks calls in flight at the same time, for the same type    *)
(* or for two types; the registry is changed between calls only.           *)
(***************************************************************************)
NextTwoCalls ==
    \/ Quiet /\ \E t \in TypeInputs :
          RegisterHook(t, IF t = "pre-commit" THEN 2 ELSE 6, FALSE)
    \/ Quiet /\ RegisterHook("pre-commit", 1, FALSE)
    \/ \E k \in CallIds, t \in TypeInputs : ExecuteHooks(k, t, t)
    \/ \E k \in CallIds, o \in Outcomes : HookSettles(k, o)
    \/ \E k \in CallIds : Return(k)

SpecTwoCalls == Init /\ [][NextTwoCalls]_vars

(***************************************************************************)
(* The startup load of the constructor and the reload of a configuration   *)
(* change overlapping: the second loadWorkspaceHooks call is made while    *)
(* the first awaits the read of the workspace file, and the two reads      *)
(* settle in either order.  The registry is empty before.                  *)
(***************************************************************************)
NextStartup ==
    \/ loads[1].pc = "idle"
          /\ \E v \in DOMAIN SettingsValues : LoadWorkspaceHooks(1, v, TRUE)
    \/ loads[1].pc = "reading" /\ loads[2].pc = "idle"
          /\ \E v \in DOMAIN SettingsValues : LoadWorkspaceHooks(2, v, TRUE)
    \/ loads[2].pc # "idle"
          /\ \E l \in LoadIds, o \in FileOutcomes : FileRead(l, o)

SpecStartup == Init /\ [][NextStartup]_vars

(***************************************************************************)
(* The registry under every operation that writes it: registerHook, the    *)
(* disposables, clearHooks and loadWorkspaceHooks.                         *)
(***************************************************************************)
NextRegistry ==
    \/ \E t \in TypeInputs, keep \in BOOLEAN :
          (keep => handles = { }) /\ RegisterHook(t, 1, keep)
    \/ \E h \in handles : Dispose(h)
    \/ \E h \in handles : Release(h)
    \/ \E t \in TypeInputs : ClearHooks(t)
    \/ \E v \in { 1, 3 }, folder \in BOOLEAN : LoadWorkspaceHooks(1, v, folder)
    \/ \E o \in { x \in FileOutcomes : x.throws \/ x.value = 4 } : FileRead(1, o)

SpecRegistry == Init /\ [][NextRegistry]_vars

(***************************************************************************)
(* Properties of the execution pipeline.                                   *)
(***************************************************************************)
\* The list a call iterates, as it is now.
ListOf(call) == ArrayOf(heap, call.arr)

\* Run i of the call failed and its hook has abortOnFailure.
FailedAborting(call, i) ==
    ~call.results[i].success /\ Configs[call.ran[i]].abortOnFailure

\* The command `false` exits with a non-zero code ("This will fail").
ExitsNonZero(hook) == hook.command = "false"

\* The hook's execution takes longer than its timeout.
TimesOut(hook) == runDuration(hook) > timeoutMs(hook)

\* C1: if run i of an executeHooks call has success=false and its hook has
\* abortOnFailure, the call has returned exactly i results, the i-th the
\* failing one; it has run exactly the first i hooks of the list and has
\* fired exactly i events: none for the hooks after i.
C1_AbortStopsChain ==
    \A k \in CallIds : \A i \in 1 .. Len(calls[k].results) :
        FailedAborting(calls[k], i) =>
            /\ calls[k].pc = "done"
            /\ Len(calls[k].results) = i
            /\ Len(calls[k].ran) = i
            /\ Len(calls[k].fired) = i
            /\ calls[k].fired[i].result = calls[k].results[i]
            /\ ~calls[k].touched =>
                 /\ i <= Len(ListOf(calls[k]))
                 /\ calls[k].ran = SubSeq(ListOf(calls[k]), 1, i)

\* A call over three hooks whose second hook failed with abortOnFailure.
C1_Witness ==
    \E k \in CallIds :
        /\ calls[k].pc = "done"
        /\ Len(ListOf(calls[k])) = 3
        /\ Len(calls[k].results) = 2
        /\ calls[k].results[1].success
        /\ FailedAborting(calls[k], 2)

\* C2: with the list << {command: 'false', abortOnFailure: true},
\* {command: 'echo'} >> executeHooks returns exactly one result.
C2_AbortTestReturnsOneResult ==
    \A k \in CallIds :
        (calls[k].pc = "done" /\ ~calls[k].touched /\ ListOf(calls[k]) = << 1, 2 >>)
            => Len(calls[k].results) = 1

\* C3: a call runs the hooks in the order of the list (the order of their
\* registration), its results and events are in that order, and when every
\* hook succeeds it returns one successful result per hook of the list.
C3_RegistrationOrder ==
    \A k \in CallIds :
        ~calls[k].touched =>
            /\ Len(calls[k].ran) <= Len(ListOf(calls[k]))
            /\ \A i \in 1 .. Len(calls[k].ran) : calls[k].ran[i] = ListOf(calls[k])[i]
            /\ \A i \in 1 .. Len(calls[k].results) :
                 /\ calls[k].results[i] =
                        resultOf(Configs[ListOf(calls[k])[i]], calls[k].outcomes[i])
                 /\ calls[k].fired[i].configuration = ListOf(calls[k])[i]
            /\ ( /\ calls[k].pc = "done"
                 /\ \A i \in 1 .. Len(calls[k].results) : calls[k].results[i].success )
               => /\ Len(calls[k].results) = Len(ListOf(calls[k]))
                  /\ \A i \in 1 .. Len(ListOf(calls[k])) :
                       calls[k].results[i] = simulatedResult(Configs[ListOf(calls[k])[i]])

\* A call over three registered hooks, not all the same, that all succeeded.
C3_Witness ==
    \E k \in CallIds :
        /\ calls[k].pc = "done"
        /\ ListOf(calls[k]) = << 2, 1, 2 >>
        /\ Len(calls[k].results) = 3
        /\ \A i \in 1 .. 3 : calls[k].results[i].success

\* C4: the steps of a call are start 1, finish 1, push 1, fire 1, start 2,
\* ...: a hook is started only after the hook before it has finished, its
\* result has been pushed and its event fired, and at most one hook of the
\* call is in flight.
C4_StrictlySequential ==
    \A k \in CallIds :
        LET tr == calls[k].trace
            InFlight(p) ==
                Cardinality({ q \in 1 .. p : tr[q][1] = "start" })
                    - Cardinality({ q \in 1 .. p : tr[q][1] = "finish" })
        IN  /\ \A p \in 1 .. Len(tr) :
                 /\ InFlight(p) \in { 0, 1 }
                 /\ (tr[p][1] = "start" /\ tr[p][2] > 1) =>
                      /\ p > 3
                      /\ tr[p - 3] = << "finish", tr[p][2] - 1 >>
                      /\ tr[p - 2] = << "push", tr[p][2] - 1 >>
                      /\ tr[p - 1] = << "fire", tr[p][2] - 1 >>
            /\ (calls[k].pc = "running") <=> (Len(tr) > 0 /\ InFlight(Len(tr)) = 1)

\* A call that has started its third hook.
C4_Witness ==
    \E k \in CallIds :
        /\ calls[k].pc = "running"
        /\ Len(calls[k].ran) = 3

\* C5: executeHooks for a type whose list is empty (no entry in the map, or
\* an array with no element left) returns at once with no result, no hook
\* run and no event fired.
C5_EmptyListNoRun ==
    [][ \A k \in CallIds :
          ( /\ calls[k].pc = "idle"
            /\ calls'[k].pc # "idle"
            /\ getHooks(calls'[k].hookType) = << >> )
          => /\ calls'[k].pc = "done"
             /\ calls'[k].results = << >>
             /\ calls'[k].fired = << >>
             /\ calls'[k].ran = << >>
             /\ calls'[k].trace = << >> ]_vars

\* A call that returned nothing on an array whose hooks were all disposed,
\* while the other type has hooks.
C5_Witness ==
    \E k \in CallIds :
        /\ calls[k].pc = "done"
        /\ calls[k].arr # 0
        /\ ListOf(calls[k]) = << >>
        /\ calls[k].results = << >>
        /\ \E t \in TypeInputs : hasHooks(t)

\* C6: every hook a call has run has exactly one result and exactly one
\* event, also when the run threw; the i-th event carries the hook type of
\* the call, the configuration instance run, the i-th result and the
\* context.
C6_OneResultOneEvent ==
    \A k \in CallIds :
        /\ Len(calls[k].fired) = Len(calls[k].results)
        /\ Len(calls[k].outcomes) = Len(calls[k].results)
        /\ Len(calls[k].ran) =
               Len(calls[k].results) + (IF calls[k].pc = "running" THEN 1 ELSE 0)
        /\ \A i \in 1 .. Len(calls[k].results) :
             calls[k].fired[i] = [ hookType      |-> calls[k].hookType,
                                   configuration |-> calls[k].ran[i],
                                   result        |-> calls[k].results[i],
                                   context       |-> calls[k].context ]

\* A returned call of two runs, one of which threw, whose context names
\* another type than the call.
C6_Witness ==
    \E k \in CallIds :
        /\ calls[k].pc = "done"
        /\ Len(calls[k].results) = 2
        /\ calls[k].outcomes[1].throws
        /\ ~calls[k].outcomes[2].throws
        /\ calls[k].context # calls[k].hookType

\* C7: a hook run that throws, exits non-zero or times out has a result
\* with success=false.
C7_FailuresBecomeFailedResults ==
    \A k \in CallIds : \A i \in 1 .. Len(calls[k].results) :
        ( \/ calls[k].outcomes[i].throws
          \/ ExitsNonZero(Configs[calls[k].ran[i]])
          \/ TimesOut(Configs[calls[k].ran[i]]) )
        => ~calls[k].results[i].success

\* C8: a failed hook without abortOnFailure does not stop the chain: its
\* failing result is in the results, the next hook of the list is run, and
\* unless a later hook fails with abortOnFailure every hook of the list is
\* run and has its event.
C8_FailureWithoutAbortContinues ==
    \A k \in CallIds : \A i \in 1 .. Len(calls[k].results) :
        ( /\ ~calls[k].touched
          /\ ~calls[k].results[i].success
          /\ ~Configs[calls[k].ran[i]].abortOnFailure )
        => /\ i < Len(ListOf(calls[k])) =>
                /\ Len(calls[k].ran) > i
                /\ calls[k].ran[i + 1] = ListOf(calls[k])[i + 1]
           /\ ( /\ calls[k].pc = "done"
                /\ \A j \in (i + 1) .. Len(calls[k].results) : ~FailedAborting(calls[k], j) )
              => /\ Len(calls[k].results) = Len(ListOf(calls[k]))
                 /\ \A j \in (i + 1) .. Len(ListOf(calls[k])) :
                      calls[k].fired[j].configuration = ListOf(calls[k])[j]

\* A returned call of three runs whose first hook, without abortOnFailure,
\* failed.
C8_Witness ==
    \E k \in CallIds :
        /\ calls[k].pc = "done"
        /\ Len(calls[k].results) = 3
        /\ ~calls[k].results[1].success
        /\ ~Configs[calls[k].ran[1]].abortOnFailure

\* C9: a hook whose execution takes longer than its timeout has a result
\* with success=false, produced at the timeout.
C9_TimeoutIsFailure ==
    \A k \in CallIds : \A i \in 1 .. Len(calls[k].results) :
        TimesOut(Configs[calls[k].ran[i]]) =>
            /\ ~calls[k].results[i].success
            /\ runDuration(Configs[calls[k].ran[i]]) = timeoutMs(Configs[calls[k].ran[i]])

(***************************************************************************)
(* Properties of the reload.                                               *)
(***************************************************************************)
\* The configuration objects a source value holds for a type: the object
\* elements of the property of `hooks` with that key.
RECURSIVE ObjectsOf(_)
ObjectsOf(elems) ==
    IF elems = << >>
    THEN << >>
    ELSE (IF Head(elems) # 0 THEN << Head(elems) >> ELSE << >>) \o ObjectsOf(Tail(elems))

RECURSIVE FreshFrom(_, _)
FreshFrom(entries, hookType) ==
    IF entries = << >>
    THEN << >>
    ELSE (IF Head(entries).key = hookType
          THEN ObjectsOf(configsOf(Head(entries)))
          ELSE << >>) \o FreshFrom(Tail(entries), hookType)

FreshOf(value, hookType) ==
    IF value.isObject /\ value.hooksKind = "object"
    THEN FreshFrom(value.entries, hookType)
    ELSE << >>

\* The configurations a completed load has freshly read from its two
\* sources for a type: those of the settings, then those of the file.
FreshlyLoaded(load, hookType) ==
    FreshOf(SettingsValues[load.settings], hookType)
        \o (IF load.folder /\ ~load.file.throws
            THEN FreshOf(FileValues[load.file.value], hookType)
            ELSE << >>)

\* C10: when a loadWorkspaceHooks call completes, getHooks(t) is for every
\* event type exactly the configurations freshly loaded from the sources
\* for t, whatever the registry held before.
C10_ReloadReplacesRegistry ==
    [][ \A l \in LoadIds :
          (loads[l].pc # "done" /\ loads'[l].pc = "done")
          => \A t \in HookType :
               ArrayOf(heap', registeredHooks'[t]) = FreshlyLoaded(loads'[l], t) ]_vars

\* A loadWorkspaceHooks call starts (and runs to the read of the file, or
\* to its end); a call that awaits the read runs to its end.
Starts(l) == loads[l].pc # "reading" /\ loads'[l] # loads[l]
Finishes(l) == loads[l].pc = "reading" /\ loads'[l].pc # "reading"

\* The source value has hooks for some event type.
Provides(value) == \E t \in HookType : FreshOf(value, t) # << >>

\* The source value has a property that is no hook type under `hooks`.
HasUnknownKey(value) ==
    /\ value.isObject
    /\ value.hooksKind = "object"
    /\ \E i \in DOMAIN value.entries : value.entries[i].key \notin HookType

\* The source value is {"hooks": {"pre-commit": [one configuration]}}.
OnePreCommit(value) ==
    /\ value.isObject
    /\ value.hooksKind = "object"
    /\ Len(value.entries) = 1
    /\ value.entries[1].key = "pre-commit"
    /\ value.entries[1].isArray
    /\ Len(value.entries[1].elems) = 1
    /\ value.entries[1].elems[1] # 0

\* C14: when the settings and the workspace file both provide hooks, the
\* list of every event type after the reload is the entries of the
\* settings for the type followed by the entries of the file for it.
C14_SettingsThenFile ==
    [][ \A l \in LoadIds :
          ( /\ Finishes(l)
            /\ ~loads'[l].file.throws
            /\ Provides(SettingsValues[loads'[l].settings])
            /\ Provides(FileValues[loads'[l].file.value]) )
          => \A t \in HookType :
               contentOf(registeredHooks', heap')[t] =
                   FreshOf(SettingsValues[loads'[l].settings], t)
                       \o FreshOf(FileValues[loads'[l].file.value], t) ]_vars

\* C15: with the settings value under `hooks` the mapping of the
\* configuration test ('pre-copilot-prompt' and 'pre-commit', one hook
\* each) and no workspace file read, after loadWorkspaceHooks hasHooks is
\* true of both types and getHooks returns the configured entries.
C15_SettingsMappingIsLoaded ==
    [][ \A l \in LoadIds :
          ( /\ Starts(l) \/ Finishes(l)
            /\ loads'[l].pc = "done"
            /\ loads'[l].settings = 2
            /\ ~loads'[l].folder \/ loads'[l].file.throws )
          => /\ contentOf(registeredHooks', heap')["pre-copilot-prompt"] = << 6 >>
             /\ contentOf(registeredHooks', heap')["pre-commit"] = << 5 >> ]_vars

\* C16: with no hooks in the settings and the workspace file
\* {"hooks":{"pre-commit":[c]}}, after the reload getHooks('pre-commit')
\* is exactly << c >>, the object parsed, and every other event type has
\* no hooks, whatever the registry held before.
C16_FileOnlyRoundTrip ==
    [][ \A l \in LoadIds :
          ( /\ Finishes(l)
            /\ ~loads'[l].file.throws
            /\ ~Provides(SettingsValues[loads'[l].settings])
            /\ SettingsValues[loads'[l].settings].props = << >>
            /\ OnePreCommit(FileValues[loads'[l].file.value]) )
          => \A t \in HookType :
               contentOf(registeredHooks', heap')[t] =
                   IF t = "pre-commit"
                   THEN << FileValues[loads'[l].file.value].entries[1].elems[1] >>
                   ELSE << >> ]_vars

\* A reload of the file {"hooks":{"pre-commit":[{script:'./a.sh', ...}]}}
\* with nothing in the settings has left that one configuration.
C16_Witness ==
    \E l \in LoadIds :
        /\ loads[l].pc = "done"
        /\ loads[l].folder
        /\ ~loads[l].file.throws
        /\ loads[l].settings = 1
        /\ OnePreCommit(FileValues[loads[l].file.value])
        /\ getHooks("pre-commit") = << 3 >>
        /\ Configs[getHooks("pre-commit")[1]] =
               [ script |-> "./a.sh", command |-> "", timeout |-> 1000, abortOnFailure |-> TRUE ]
        /\ \A t \in HookType \ { "pre-commit" } : ~hasHooks(t)

\* C17: a key of `hooks` that is no hook type is skipped: the load goes on
\* to its end without error, and right after a source with such a key is
\* loaded the list of every hook type is what the source has under that
\* type's key.
C17_UnknownKeyDropped ==
    [][ \A l \in LoadIds :
          /\ ( Starts(l) /\ HasUnknownKey(SettingsValues[loads'[l].settings]) )
             => /\ loads'[l].pc \in { "reading", "done" }
                /\ \A t \in HookType :
                     contentOf(registeredHooks', heap')[t] =
                         FreshOf(SettingsValues[loads'[l].settings], t)
          /\ ( /\ Finishes(l)
               /\ ~loads'[l].file.throws
               /\ HasUnknownKey(FileValues[loads'[l].file.value]) )
             => /\ loads'[l].pc = "done"
                /\ \A t \in HookType :
                     contentOf(registeredHooks', heap')[t] =
                         FreshOf(FileValues[loads'[l].file.value], t) ]_vars

\* A reload of a file with the key "pre-xyz" between two known keys has
\* loaded the hooks of both.
C17_Witness ==
    \E l \in LoadIds :
        /\ loads[l].pc = "done"
        /\ loads[l].folder
        /\ ~loads[l].file.throws
        /\ HasUnknownKey(FileValues[loads[l].file.value])
        /\ getHooks("file-save") = << 6 >>
        /\ getHooks("pre-commit") = << 3 >>

\* C18: loadWorkspaceHooks never rejects, whatever the settings value and
\* the file are; when the file does not exist or is not valid JSON the
\* call is fulfilled and the read changes nothing in the registry.
C18_ReloadNeverRaises ==
    [][ \A l \in LoadIds :
          /\ loads'[l].pc # "rejected"
          /\ (Starts(l) \/ Finishes(l)) => loads'[l].pc \in { "reading", "done" }
          /\ (Finishes(l) /\ loads'[l].file.throws)
             => /\ loads'[l].pc = "done"
                /\ contentOf(registeredHooks', heap') = contentOf(registeredHooks, heap) ]_vars

\* A reload whose read of the file threw has completed and the registry
\* still has the hooks it had.
C18_Witness ==
    \E l \in LoadIds :
        /\ loads[l].pc = "done"
        /\ loads[l].folder
        /\ loads[l].file.throws
        /\ \E t \in TypeInputs : hasHooks(t)

(***************************************************************************)
(* Properties of calls that overlap.                                       *)
(***************************************************************************)
\* C11: a reload is atomic: what getHooks and hasHooks return while a
\* loadWorkspaceHooks call awaits the read of the file is what they
\* returned before the call or what they return after it.  (partial: it is
\* not what they returned before.)
C11_ReloadIsAtomic ==
    [][ \A l \in LoadIds :
          (loads[l].pc = "reading" /\ loads'[l].pc # "reading" /\ loads[l].partial)
          => contentOf(registeredHooks', heap') = contentOf(registeredHooks, heap) ]_vars

\* C12: with no registerHook and no disposable called during the call, the
\* list an executeHooks call iterates stays what it was when the call
\* started, whatever loadWorkspaceHooks does meanwhile; the call runs the
\* hooks of that list in order, and all of them unless one aborts.
C12_ReloadLeavesIteratedList ==
    \A k \in CallIds :
        calls[k].pc # "idle" =>
            /\ ListOf(calls[k]) = calls[k].started
            /\ Len(calls[k].ran) <= Len(calls[k].started)
            /\ calls[k].ran = SubSeq(calls[k].started, 1, Len(calls[k].ran))
            /\ ( /\ calls[k].pc = "done"
                 /\ \A i \in 1 .. Len(calls[k].results) : ~FailedAborting(calls[k], i) )
               => calls[k].ran = calls[k].started

\* A call that has started the second of its hooks after a reload has put
\* another list in the map for its type.
C12_Witness ==
    \E k \in CallIds :
        /\ calls[k].pc = "running"
        /\ Len(calls[k].started) >= 2
        /\ Len(calls[k].ran) = 2
        /\ calls[k].arr # registeredHooks[calls[k].hookType]
        /\ getHooks(calls[k].hookType) # << >>
        /\ getHooks(calls[k].hookType) # calls[k].started

\* C13: an executeHooks call runs the hooks of the list as it was when the
\* call started: a hook registered while the call is in flight is not run
\* by the call, and has no result and no event in it.
C13_CallRunsItsSnapshot ==
    \A k \in CallIds :
        /\ Len(calls[k].ran) <= Len(calls[k].started)
        /\ calls[k].ran = SubSeq(calls[k].started, 1, Len(calls[k].ran))
        /\ Len(calls[k].results) <= Len(calls[k].started)
        /\ \A i \in 1 .. Len(calls[k].fired) :
             /\ i <= Len(calls[k].started)
             /\ calls[k].fired[i].configuration = calls[k].started[i]

(***************************************************************************)
(* Properties of the disposables.                                          *)
(***************************************************************************)
\* registerHook(t, ...) is called: the list of t has one entry more.
Registers(t) ==
    /\ registeredHooks'[t] # 0
    /\ Len(ArrayOf(heap', registeredHooks'[t])) = Len(getHooks(t)) + 1

\* The disposable h is invoked for the first time.
Invokes(h) ==
    /\ h \in handles
    /\ ~h.disposed
    /\ handles' = (handles \ { h }) \cup { [ h EXCEPT !.disposed = TRUE ] }

\* The list without its i-th entry.
Without(list, i) ==
    [ j \in 1 .. (Len(list) - 1) |-> IF j < i THEN list[j] ELSE list[j + 1] ]

\* C19 as stated: hasHooks(t) is true right after registerHook(t, c) and
\* false right after the disposable registerHook returned is invoked.
C19_DisposeEndsHasHooks ==
    [][ \A t \in HookType :
          /\ Registers(t) => hasHooks(t)'
          /\ \A h \in handles :
               (Invokes(h) /\ h.arr = registeredHooks[t]) => ~hasHooks(t)' ]_vars

\* C19 amended: hasHooks(t) is true right after registerHook(t, c); right
\* after the disposable is invoked, hasHooks(t) is false if c was the only
\* entry of the list of t and true if the list has other entries; invoked
\* after the list was cleared, the disposable leaves hasHooks as it is.
C19_HasHooksFollowsTheList ==
    [][ \A t \in HookType :
          /\ Registers(t) => hasHooks(t)'
          /\ \A h \in handles :
               Invokes(h) =>
                   IF h.arr = registeredHooks[t]
                   THEN hasHooks(t)' <=> (Len(getHooks(t)) > 1)
                   ELSE hasHooks(t)' <=> hasHooks(t) ]_vars

\* The disposable of the only hook of a type has been invoked: the type
\* has its (empty) list in the map and hasHooks is false.
C19_Witness ==
    \E h \in handles :
        /\ h.disposed
        /\ h.arr = registeredHooks["pre-commit"]
        /\ heap[h.arr] = << >>
        /\ ~hasHooks("pre-commit")

\* C20: the first invocation of the disposable of registerHook(t, c)
\* removes one entry of the list, an entry that is the object c itself and
\* not another object with the same fields; the other entries keep their
\* order, and every other list and the map are unchanged.  No later
\* invocation removes anything.
C20_DisposeRemovesThatInstance ==
    [][ \A h \in handles :
          /\ Invokes(h) =>
               /\ registeredHooks' = registeredHooks
               /\ \A a \in ArrayIds \ { h.arr } : heap'[a] = heap[a]
               /\ \E i \in 1 .. Len(heap[h.arr]) :
                    /\ heap[h.arr][i] = h.cfg
                    /\ heap'[h.arr] = Without(heap[h.arr], i)
          /\ (h.disposed /\ h \in handles')
               => Len(heap'[h.arr]) >= Len(heap[h.arr]) ]_vars

\* The disposable of configuration 4 has been invoked on a list that had
\* 4 after configuration 2, an object with the same fields: 2 is still
\* there, twice, and 4 is not.
C20_Witness ==
    \E h \in handles :
        /\ h.disposed
        /\ h.cfg = 4
        /\ Configs[2] = Configs[4]
        /\ heap[h.arr] = << 2, 2 >>

(***************************************************************************)
(* Properties of the registry.                                             *)
(***************************************************************************)
\* C21: registerHook(t, c) puts c at the end of the list of t, a new list
\* if t had none, and leaves the entries before it and the lists of the
\* other types as they were: getHooks(t) is in the order of registration.
C21_RegisterAppends ==
    [][ \A t \in HookType :
          Registers(t) =>
              /\ SubSeq(ArrayOf(heap', registeredHooks'[t]), 1, Len(getHooks(t))) = getHooks(t)
              /\ \A h \in handles' \ handles :
                   /\ ~h.disposed
                   /\ h.arr = registeredHooks'[t]
                   /\ heap'[h.arr][Len(heap'[h.arr])] = h.cfg
              /\ \A u \in HookType \ { t } :
                   contentOf(registeredHooks', heap')[u] = contentOf(registeredHooks, heap)[u] ]_vars

\* Configuration 4 was registered last, after 2, 4 and 2: it is the last
\* entry of the list.
C21_Witness ==
    \E h \in handles :
        /\ ~h.disposed
        /\ h.cfg = 4
        /\ h.arr = registeredHooks["pre-commit"]
        /\ getHooks("pre-commit") = << 2, 4, 4 >>
        /\ getHooks("file-save") = << 4, 2 >>

\* C22: clearHooks(t) on a type that has a list leaves t without hooks
\* (hasHooks(t) false, getHooks(t) empty) and the list of every other type
\* as it was.
C22_ClearOneType ==
    [][ \A t \in HookType :
          (registeredHooks[t] # 0 /\ registeredHooks'[t] = 0)
          => /\ ~hasHooks(t)'
             /\ ArrayOf(heap', registeredHooks'[t]) = << >>
             /\ \A u \in HookType \ { t } :
                  /\ registeredHooks'[u] = registeredHooks[u]
                  /\ contentOf(registeredHooks', heap')[u] = contentOf(registeredHooks, heap)[u] ]_vars

\* 'pre-commit' was cleared while a disposable held on to its list of two
\* hooks; 'file-save' still has its hooks.
C22_Witness ==
    \E h \in handles :
        /\ h.arr \in SpareIds
        /\ Len(heap[h.arr]) = 2
        /\ registeredHooks["pre-commit"] = 0
        /\ ~hasHooks("pre-commit")
        /\ getHooks("file-save") = << 2, 4 >>

\* C23: in every state and for every event type, hasHooks(t) is true
\* exactly when getHooks(t) is not empty.
C23_HasHooksIffNonEmpty ==
    \A t \in HookType : hasHooks(t) <=> (getHooks(t) # << >>)

\* After a reload, the disposable of the only 'file-save' hook has been
\* invoked: the map still has the (empty) list, and another type has hooks.
C23_Witness ==
    \E h \in handles, l \in LoadIds :
        /\ loads[l].pc = "done"
        /\ h.disposed
        /\ h.arr = registeredHooks["file-save"]
        /\ getHooks("file-save") = << >>
        /\ ~hasHooks("file-save")
        /\ hasHooks("pre-commit")

\* The configuration has a script or a command, and not both.
Valid(hook) == (hook.script # "") # (hook.command # "")

\* C24: a configuration with both a script and a command, or with neither,
\* is rejected when it is registered: no list of the registry has it and
\* no executeHooks call runs it.
C24_InvalidConfigurationRejected ==
    /\ \A t \in HookType : \A i \in 1 .. Len(getHooks(t)) : Valid(Configs[getHooks(t)[i]])
    /\ \A k \in CallIds : \A i \in 1 .. Len(calls[k].ran) : Valid(Configs[calls[k].ran[i]])

\* C26: an integration that has run the hooks of its type aborts its
\* action exactly when a hook that failed has abortOnFailure; a failed hook
\* without abortOnFailure does not abort the action.
C26_AbortIffFailedWithAbortOnFailure ==
    \A k \in CallIds :
        (calls[k].pc = "done" /\ calls[k].context = calls[k].hookType)
        => ( ~proceeds(calls[k].started # << >>, calls[k].results)
             <=> \E i \in 1 .. Len(calls[k].results) : FailedAborting(calls[k], i) )

\* C27: a reload is idempotent: after a loadWorkspaceHooks call has
\* completed, another call with the same settings value and the same file
\* leaves getHooks of every type as it is: nothing twice, nothing lost.
C27_ReloadIsIdempotent ==
    \A l \in LoadIds :
        loads[l].pc = "done" =>
            LET again == loadWorkspaceHooks(State, loads[l].settings,
                                            loads[l].folder, loads[l].file)
            IN  contentOf(again.map, again.heap) = contentOf(registeredHooks, heap)

\* A reload with hooks in the settings and in the file has completed.
C27_Witness ==
    \E l \in LoadIds :
        /\ loads[l].pc = "done"
        /\ loads[l].folder
        /\ ~loads[l].file.throws
        /\ Provides(SettingsValues[loads[l].settings])
        /\ HasUnknownKey(FileValues[loads[l].file.value])
        /\ hasHooks("pre-commit")
        /\ hasHooks("file-save")

\* C28: executeHooks does not change the registry: over every step of a
\* call, to its return, the map and the list of every event type stay as
\* they are, also when context.hookType is not the hookType of the call.
C28_ExecuteLeavesRegistry ==
    [][ calls' # calls
        => /\ registeredHooks' = registeredHooks
           /\ contentOf(registeredHooks', heap') = contentOf(registeredHooks, heap) ]_vars

\* A call over three hooks has returned, its context naming another type
\* than the call; the list of the type is the list the call ran.
C28_Witness ==
    \E k \in CallIds :
        /\ calls[k].pc = "done"
        /\ calls[k].context # calls[k].hookType
        /\ Len(calls[k].results) = 3
        /\ getHooks(calls[k].hookType) = calls[k].ran
        /\ hasHooks(calls[k].context)

\* C29: when the run of a hook throws, the hook's result has
\* success=false, exitCode=-1 and the message of the error as stderr, and
\* that result is the one in the results of the call, at the hook's place,
\* and the one its event carries.
C29_ThrowBecomesErrorResult ==
    \A k \in CallIds : \A i \in 1 .. Len(calls[k].outcomes) :
        calls[k].outcomes[i].throws =>
            /\ i <= Len(calls[k].results)
            /\ calls[k].results[i].success = FALSE
            /\ calls[k].results[i].exitCode = -1
            /\ calls[k].results[i].stderr = calls[k].outcomes[i].message
            /\ i <= Len(calls[k].fired)
            /\ calls[k].fired[i].result = calls[k].results[i]
            /\ calls[k].fired[i].configuration = calls[k].ran[i]

\* The second hook of a call threw "spawn ENOENT" after the first one
\* succeeded.
C29_Witness ==
    \E k \in CallIds :
        /\ Len(calls[k].results) >= 2
        /\ ~calls[k].outcomes[1].throws
        /\ calls[k].outcomes[2].throws
        /\ calls[k].results[2].stderr = "spawn ENOENT"
        /\ calls[k].fired[2].result.exitCode = -1

\* C25: when the setting hooks.enabled is false the hooks system is
\* disabled: an executeHooks call made then, for any event type, returns
\* at once, having run no hook and published no event.
C25_DisabledRunsNothing ==
    [][ \A k \in CallIds :
          ( /\ ~hooksEnabled
            /\ calls[k].pc = "idle"
            /\ calls'[k].pc # "idle" )
          => /\ calls'[k].pc = "done"
             /\ calls'[k].ran = << >>
             /\ calls'[k].results = << >>
             /\ calls'[k].fired = << >> ]_vars

\* A call for which buildCommand built a command.
Runnable(c) == ~buildCommand(c.cfg, c.context).throws

\* C30 as stated: for a configured hook of the chat hooks service, a call
\* whose token is cancelled before the hook starts returns success=false
\* with the error 'Hook execution cancelled' and starts no hook; a
\* cancellation while the hook is in flight gives the same result; a
\* cancellation after the hook completed leaves the returned result.
C30_CancellationCancels ==
    [][ \A h \in ChatHookTypes :
          /\ ( /\ chat[h].pc = "idle"
               /\ chat'[h].pc # "idle"
               /\ chat'[h].cfg # "none"
               /\ chat[h].cancelled )
             => /\ chat'[h].pc = "done"
                /\ chat'[h].result.success = FALSE
                /\ chat'[h].result.error = "Hook execution cancelled"
                /\ ~chat'[h].started
          /\ ( /\ chat[h].pc = "running"
               /\ ~chat[h].cancelled
               /\ chat'[h].cancelled )
             => /\ chat'[h].pc = "done"
                /\ chat'[h].result.success = FALSE
                /\ chat'[h].result.error = "Hook execution cancelled"
          /\ ( /\ chat[h].pc = "done"
               /\ ~chat[h].cancelled
               /\ chat'[h].cancelled )
             => /\ chat'[h].pc = "done"
                /\ chat'[h].result = chat[h].result ]_vars

\* C30, amended: the same outside the sandboxed environment and for a
\* configuration and a context from which buildCommand builds a command;
\* in the sandboxed environment, or when buildCommand throws, a call
\* whose token is already cancelled still starts no hook.
C30_CancellationCancelsRunnable ==
    [][ \A h \in ChatHookTypes :
          /\ ( /\ chat[h].pc = "idle"
               /\ chat'[h].pc # "idle"
               /\ chat[h].cancelled )
             => ~chat'[h].started
          /\ ( /\ chat[h].pc = "idle"
               /\ chat'[h].pc # "idle"
               /\ chat'[h].cfg # "none"
               /\ Runnable(chat'[h])
               /\ ~chat'[h].sandboxed
               /\ chat[h].cancelled )
             => /\ chat'[h].pc = "done"
                /\ chat'[h].result.success = FALSE
                /\ chat'[h].result.error = "Hook execution cancelled"
          /\ ( /\ chat[h].pc = "running"
               /\ ~chat[h].cancelled
               /\ chat'[h].cancelled )
             => /\ chat'[h].pc = "done"
                /\ chat'[h].result.success = FALSE
                /\ chat'[h].result.error = "Hook execution cancelled"
          /\ ( /\ chat[h].pc = "done"
               /\ ~chat[h].cancelled
               /\ chat'[h].cancelled )
             => /\ chat'[h].pc = "done"
                /\ chat'[h].result = chat[h].result ]_vars

\* The three cases at once: one call returned cancelled without starting
\* its hook, one was cancelled in flight, and one completed with success
\* before its token was cancelled.
C30_Witness ==
    \E a, b, c \in ChatHookTypes :
        /\ chat[a].pc = "done" /\ chat[a].cancelled /\ ~chat[a].started
        /\ chat[a].cfg # "none" /\ Runnable(chat[a]) /\ chat[a].result = CancelledResult
        /\ chat[b].pc = "done" /\ chat[b].cancelled /\ chat[b].started
        /\ chat[b].result = CancelledResult
        /\ chat[c].pc = "done" /\ chat[c].cancelled /\ chat[c].started
        /\ chat[c].result.success

(***************************************************************************)
(* Properties of the values of a configuration source.                     *)
(***************************************************************************)
\* The entries of the `hooks` object of a source value.
EntriesOf(value) ==
    IF value.isObject /\ value.hooksKind = "object" THEN value.entries ELSE << >>

\* Entry i of the value is a single configuration object, not in an array,
\* under the key of a hook type that is the key of no other entry.
BareObject(value, i) ==
    /\ ~EntriesOf(value)[i].isArray
    /\ EntriesOf(value)[i].elems[1] # 0
    /\ EntriesOf(value)[i].key \in HookType
    /\ \A j \in DOMAIN EntriesOf(value) :
          EntriesOf(value)[j].key = EntriesOf(value)[i].key => j = i

\* C31: an event-type value of the workspace file that is a single object,
\* not inside an array, is loaded as a one-element list: when the reload
\* completes the list of that type is exactly that one configuration.
C31_BareObjectIsOneElementList ==
    [][ \A l \in LoadIds :
          (Finishes(l) /\ ~loads'[l].file.throws)
          => \A i \in DOMAIN EntriesOf(FileValues[loads'[l].file.value]) :
               BareObject(FileValues[loads'[l].file.value], i)
               => contentOf(registeredHooks', heap')
                      [EntriesOf(FileValues[loads'[l].file.value])[i].key]
                  = << EntriesOf(FileValues[loads'[l].file.value])[i].elems[1] >> ]_vars

\* A reload of a file with "pre-commit": {script:'./a.sh', ...} has
\* completed and that object is the list of pre-commit.
C31_Witness ==
    \E l \in LoadIds :
        /\ loads[l].pc = "done"
        /\ loads[l].folder
        /\ ~loads[l].file.throws
        /\ \E i \in DOMAIN EntriesOf(FileValues[loads[l].file.value]) :
              /\ BareObject(FileValues[loads[l].file.value], i)
              /\ EntriesOf(FileValues[loads[l].file.value])[i].key = "pre-commit"
        /\ getHooks("pre-commit") = << 3 >>

\* The value has, under the key of a hook type, a value or an array
\* element that is not an object.
HasMalformed(value) ==
    \E i \in DOMAIN EntriesOf(value) :
        /\ EntriesOf(value)[i].key \in HookType
        /\ \E j \in DOMAIN EntriesOf(value)[i].elems : EntriesOf(value)[i].elems[j] = 0

\* C33: a value or list element that is not an object, under a known event
\* type, is never registered; when a file with such a value is loaded the
\* reload is fulfilled and the list of every type is the objects the file
\* has for it, those next to the malformed element included.
C33_MalformedValueDropped ==
    [][ /\ \A t \in HookType :
            \A i \in DOMAIN contentOf(registeredHooks', heap')[t] :
                contentOf(registeredHooks', heap')[t][i] # 0
        /\ \A l \in LoadIds :
            ( /\ Finishes(l)
              /\ ~loads'[l].file.throws
              /\ HasMalformed(FileValues[loads'[l].file.value]) )
            => /\ loads'[l].pc = "done"
               /\ \A t \in HookType :
                    contentOf(registeredHooks', heap')[t] =
                        FreshOf(FileValues[loads'[l].file.value], t) ]_vars

\* A reload of a file with "file-save": ["x", {command:'echo'}] and
\* "pre-push": "x" has completed: the one object is the list of file-save
\* and pre-push has no hooks.
C33_Witness ==
    \E l \in LoadIds :
        /\ loads[l].pc = "done"
        /\ loads[l].folder
        /\ ~loads[l].file.throws
        /\ HasMalformed(FileValues[loads[l].file.value])
        /\ getHooks("file-save") = << 6 >>
        /\ getHooks("pre-commit") = << 3 >>
        /\ ~hasHooks("pre-push")

(***************************************************************************)
(* Properties of the Git and Copilot integrations.                         *)
(***************************************************************************)
\* C32: executePreCommitHooks, executePrePushHooks and executePrePullHooks
\* return true without calling executeHooks (no hook is run, no call
\* changes) when hasHooks is false of their type or the workspace has no
\* folder.
C32_GitProceedsWithoutHooksOrFolder ==
    [][ ( /\ integ.pc = "idle"
          /\ integ'.pc # "idle"
          /\ integ'.method \in GitMethods
          /\ ~hasHooks(MethodType[integ'.method]) \/ ~integ'.folder )
        => /\ integ'.pc = "done"
           /\ integ'.ok
           /\ ~integ'.called
           /\ calls' = calls ]_vars

\* executePrePushHooks has returned true in a workspace with no folder,
\* with two hooks registered for pre-push and none of them run.
C32_Witness ==
    /\ integ.pc = "done"
    /\ integ.method = "executePrePushHooks"
    /\ ~integ.folder
    /\ Len(getHooks("pre-push")) = 2
    /\ integ.ok
    /\ ~integ.called
    /\ Quiet

RunsOf(call, c) == Cardinality({ i \in 1 .. Len(call.ran) : call.ran[i] = c })

\* C34: if no hook aborts, a hook that is in the list when executeHooks
\* starts and is still registered when the call returns has been run
\* exactly once by the call, also when disposables of other hooks of the
\* type were invoked while the call was in flight.
C34_RemainingHooksRunOnce ==
    \A k \in CallIds :
        ( /\ calls[k].pc = "done"
          /\ \A i \in 1 .. Len(calls[k].results) : ~FailedAborting(calls[k], i) )
        => \A i \in 1 .. Len(calls[k].started) :
             (\E j \in 1 .. Len(ListOf(calls[k])) : ListOf(calls[k])[j] = calls[k].started[i])
             => RunsOf(calls[k], calls[k].started[i]) = 1

\* C35: an executeHooks call returns after running at most as many hooks
\* as were in the list of its type when it started, also when hooks are
\* registered for the type during the call.
C35_RunsAtMostItsList ==
    \A k \in CallIds :
        /\ Len(calls[k].ran) <= Len(calls[k].started)
        /\ calls[k].pc = "done" => Len(calls[k].results) <= Len(calls[k].started)

\* C36: two executeHooks calls in flight at the same time do not
\* interfere: each call has one result for each hook it has finished, in
\* the order of its list, every result being what that run of that hook by
\* that call gave; no result of a call comes from a run of the other.
C36_CallsDoNotInterfere ==
    \A k \in CallIds :
        /\ Len(calls[k].results) = Len(calls[k].outcomes)
        /\ Len(calls[k].results) <= Len(calls[k].ran)
        /\ Len(calls[k].ran) <= Len(calls[k].results) + 1
        /\ calls[k].ran = SubSeq(calls[k].started, 1, Len(calls[k].ran))
        /\ \A i \in 1 .. Len(calls[k].results) :
             /\ calls[k].results[i].success = ~calls[k].outcomes[i].throws
             /\ calls[k].outcomes[i].throws
                => calls[k].results[i].stderr = calls[k].outcomes[i].message
             /\ ~calls[k].outcomes[i].throws
                => calls[k].results[i].stdout =
                       << "Simulated execution of hook: ",
                          ScriptOrCommand(Configs[calls[k].ran[i]]) >>
        /\ calls[k].pc = "done"
           => \/ Len(calls[k].results) = Len(calls[k].started)
              \/ FailedAborting(calls[k], Len(calls[k].results))

\* Two calls for pre-commit are in flight, each awaiting its second hook:
\* the first hook threw in call 1 and succeeded in call 2.
C36_Witness ==
    /\ calls[1].pc = "running" /\ calls[2].pc = "running"
    /\ calls[1].hookType = "pre-commit" /\ calls[2].hookType = "pre-commit"
    /\ Len(calls[1].results) = 1 /\ Len(calls[2].results) = 1
    /\ ~calls[1].results[1].success
    /\ calls[2].results[1].success
    /\ calls[1].ran = calls[2].ran

\* The array the disposable h refers to is not in the map: the map let go
\* of it (clearHooks, or the clear of a reload) after h was made.
Orphaned(h) == \A t \in HookType : registeredHooks[t] # h.arr

\* C37: invoking a disposable obtained before a clearHooks of its type or
\* before a reload removes nothing of what the registry holds since: the
\* map and the list of every type are unchanged, also when the same
\* configuration object was registered again after the clear.
C37_StaleDisposableRemovesNothing ==
    [][ \A h \in handles :
          (Invokes(h) /\ Orphaned(h))
          => /\ registeredHooks' = registeredHooks
             /\ contentOf(registeredHooks', heap') = contentOf(registeredHooks, heap) ]_vars

\* A disposable made before its list was cleared has been invoked, and the
\* configuration object it was made for, registered again since, is in
\* the list of pre-commit.
C37_Witness ==
    \E h \in handles :
        /\ h.disposed
        /\ Orphaned(h)
        /\ heap[h.arr] = << >>
        /\ getHooks("pre-commit") = << h.cfg >>

(***************************************************************************)
(* Properties of reloads that overlap.                                     *)
(***************************************************************************)
\* The registry of a service just constructed.
EmptyState ==
    [ map |-> [ t \in HookType |-> 0 ], heap |-> [ a \in ArrayIds |-> << >> ],
      handles |-> { }, calls |-> [ k \in CallIds |-> IdleCall ] ]

\* What getHooks returns after load l alone, on the registry of a service
\* just constructed.
AloneContent(load) ==
    LET st == loadWorkspaceHooks(EmptyState, load.settings, load.folder, load.file)
    IN  contentOf(st.map, st.heap)

\* No configuration is twice in the list.
NoDuplicates(list) ==
    \A i \in 1 .. Len(list) : \A j \in 1 .. Len(list) : list[i] = list[j] => i = j

\* C38: when two overlapping loadWorkspaceHooks calls have both completed,
\* the registry has the content of exactly one of them: what that load
\* alone leaves, and no configuration of the sources twice in any list.
C38_OverlappingReloadsLeaveOneLoad ==
    (\A l \in LoadIds : loads[l].pc = "done")
    => /\ \E l \in LoadIds :
            contentOf(registeredHooks, heap) = AloneContent(loads[l])
       /\ \A t \in HookType : NoDuplicates(getHooks(t))

\* Two overlapping loads of the same settings and the same file, both with
\* hooks, have completed and the list of pre-commit has one hook.
C38_Witness ==
    /\ \A l \in LoadIds : loads[l].pc = "done" /\ ~loads[l].file.throws
    /\ loads[1].settings = loads[2].settings
    /\ loads[1].file = loads[2].file
    /\ FreshOf(SettingsValues[loads[1].settings], "pre-commit") = << 5 >>
    /\ FreshOf(FileValues[loads[1].file.value], "pre-commit") = << 3 >>
    /\ Len(getHooks("pre-commit")) = 1

\* C40: the execute*Hook operations of the chat hooks service never
\* reject.  With no configuration for the type, or one with
\* enabled=false, the result is {success: true, shouldContinue: true} and
\* nothing is run; an error raised while the command of a configured hook
\* is built (a configuration with neither script nor command, a context
\* that cannot be serialised) gives success=false with shouldContinue=true
\* and the message of the error.
C40_ChatHookNeverRejects ==
    \A h \in ChatHookTypes :
        /\ chat[h].pc \in { "idle", "running", "done" }
        /\ (chat[h].pc = "done" /\ chat[h].cfg = "none")
           => /\ chat[h].result = [ success |-> TRUE, shouldContinue |-> TRUE, error |-> "" ]
              /\ ~chat[h].started
        /\ ( /\ chat[h].pc # "idle"
             /\ chat[h].cfg # "none"
             /\ ~chat[h].sandboxed
             /\ chat[h].cfg = "empty" \/ chat[h].context = "cyclic" )
           => /\ chat[h].pc = "done"
              /\ ~chat[h].result.success
              /\ chat[h].result.shouldContinue
              /\ chat[h].result.error \in
                     { "Hook configuration must specify either script or command",
                       "Converting circular structure to JSON" }
              /\ ~chat[h].started

\* A call for a configuration with neither script nor command has
\* returned the error result, and a call for a type with no configuration
\* has returned the continue result.
C40_Witness ==
    \E a, b \in ChatHookTypes :
        /\ chat[a].pc = "done" /\ chat[a].cfg = "empty" /\ ~chat[a].sandboxed
        /\ chat[a].context = "plain"
        /\ chat[a].result.error = "Hook configuration must specify either script or command"
        /\ chat[a].result.shouldContinue
        /\ chat[b].pc = "done" /\ chat[b].cfg = "none"
        /\ chat[b].result.success

====
